---- MODULE Spec2Model ----
(***************************************************************************)
(* A model of faiss/gpu/GpuResources.cpp: the allocation descriptors, the *)
(* GpuMemoryReservation scoped handle, GpuResources::allocMemoryHandle    *)
(* and GpuResourcesProviderFromInstance, plus the warp-level k-selector   *)
(* instantiated by WARP_SELECT_IMPL(float, false, 1024, 8).               *)
(***************************************************************************)
EXTENDS Integers, Sequences, FiniteSets, TLC

\* ------------------------------------------------------------ bounds
NumSlots == 2        \* GpuMemoryReservation objects a run may construct
NumRes == 2          \* GpuResources instances
NumDevices == 2      \* devices 0 .. NumDevices-1
NumPtrs == 1         \* distinct non-null addresses allocMemory may return
MaxAllocs == 2       \* allocMemory calls in one run
MaxProvs == 1        \* providers alive per instance
MaxShared == 1       \* other shared_ptr<GpuResources> alive per instance
MaxDescs == 2        \* AllocInfo descriptors kept by the caller
NumWarps == 2        \* warps of the block that selects one row
WarpSize == 1        \* lanes of a warp
NumThreadQ == 1      \* capacity of a thread's candidate buffer
MaxN == 5            \* row lengths 0 .. MaxN
MaxVal == 2          \* scores 0 .. MaxVal
MaxK == 3            \* requested k, 0 .. MaxK

Slots == 1..NumSlots
Resources == 1..NumRes
Devices == 0..(NumDevices - 1)
Ptrs == 1..NumPtrs

\* nullptr, for GpuResources*, cudaStream_t and void*
Null == 0

VARIABLES
    resv,       \* slot -> the GpuMemoryReservation object living there
    live,       \* the blocks <<instance, device, address>> handed out
    nAlloc,     \* allocMemory calls that returned a block
    nFree,      \* deallocMemory calls that returned a handed-out block
    stray,      \* deallocMemory calls naming a block not handed out
    curDev,     \* the calling thread's current device
    aborted,    \* NoAbort, or the reason the process was terminated
    last,       \* the operation that ran last, and its deallocMemory calls
    useCount,   \* instance -> shared_ptr use count
    provs,      \* instance -> GpuResourcesProviderFromInstance objects alive
    sptrs,      \* instance -> other shared_ptr<GpuResources> objects alive
    destroyed,  \* instance -> ~GpuResources has run
    uaf,        \* deallocMemory has been called on a destroyed instance
    descs,      \* the AllocInfo descriptors built, each with its call
    sel         \* the state of one block of the k-selection kernel

vars == <<resv, live, nAlloc, nFree, stray, curDev, aborted, last,
          useCount, provs, sptrs, destroyed, uaf, descs, sel>>

poolVars == <<live, nAlloc, nFree, stray>>
resVars == <<useCount, provs, sptrs, destroyed>>

NoAbort == <<"running">>

\* ------------------------------------------------------------ descriptors
AllocTypes == {"Other", "TemporaryMemoryBuffer"}
MemorySpaces == {"Temporary", "Device", "Unified"}
StreamArgs == {Null, 1}

\* getCurrentDevice()
getCurrentDevice == curDev

\* AllocInfo(at, dev, sp, st)
AllocInfo(at, dev, sp, st) ==
    [type |-> at, device |-> dev, space |-> sp, stream |-> st]

\* makeDevAlloc with the device left at its default instead of the
\* current device.
makeDevAllocDefaultDevice(at, st) == AllocInfo(at, 0, "Device", st)

makeDevAlloc(at, st) == AllocInfo(at, getCurrentDevice, "Device", st)

makeTempAlloc(at, st) == AllocInfo(at, getCurrentDevice, "Temporary", st)

makeSpaceAlloc(at, sp, st) == AllocInfo(at, getCurrentDevice, sp, st)

\* ------------------------------------------------------------ reservation
\* The five fields of an empty reservation.
EmptyFields == [res |-> Null, device |-> 0, stream |-> Null,
                data |-> Null, size |-> 0]

Unborn == [st |-> "unborn"] @@ EmptyFields
Dead == [st |-> "destroyed"] @@ EmptyFields

\* GpuMemoryReservation::GpuMemoryReservation()
GpuMemoryReservationDefault ==
    [st |-> "alive", res |-> Null, device |-> 0, stream |-> Null,
     data |-> Null, size |-> 0]

\* GpuMemoryReservation::GpuMemoryReservation(r, dev, str, p, sz)
GpuMemoryReservation(r, dev, str, p, sz) ==
    [st |-> "alive", res |-> r, device |-> dev, stream |-> str,
     data |-> p, size |-> sz]

Fields(m) == [res |-> m.res, device |-> m.device, stream |-> m.stream,
              data |-> m.data, size |-> m.size]

IsEmpty(m) == Fields(m) = EmptyFields

Block(m) == <<m.res, m.device, m.data>>

\* ------------------------------------------------------------ the pool
\* The outcomes of a call through a dangling GpuResources*.
UBOutcomes == {"effect", "noeffect", "crash"}

\* res->deallocMemory(dev, p) on a concrete GpuResources: a block that is
\* handed out is returned; any other call is a double or stray free.
\* h is the heap [resv, live, nFree, stray, uaf, calls, crashed].
deallocMemory(h, r, dev, p, ub) ==
    LET called == [h EXCEPT !.calls = Append(@, <<r, dev, p>>)]
        booked ==
            IF <<r, dev, p>> \in h.live
            THEN [called EXCEPT !.live = @ \ {<<r, dev, p>>},
                                !.nFree = @ + 1]
            ELSE [called EXCEPT !.stray = @ + 1]
    IN  IF destroyed[r]
        THEN CASE ub = "effect" -> [booked EXCEPT !.uaf = TRUE]
               [] ub = "noeffect" -> [called EXCEPT !.uaf = TRUE]
               [] OTHER -> [called EXCEPT !.uaf = TRUE, !.crashed = TRUE]
        ELSE booked

Heap == [resv |-> resv, live |-> live, nFree |-> nFree, stray |-> stray,
         uaf |-> uaf, calls |-> <<>>, crashed |-> FALSE]

\* The move constructor taking the current device instead of m.device.
MoveCtorCurrentDevice(h, n, m) ==
    [h EXCEPT !.resv[n] = [h.resv[m] EXCEPT !.device = getCurrentDevice],
              !.resv[m] = GpuMemoryReservationDefault]

\* GpuMemoryReservation::GpuMemoryReservation(GpuMemoryReservation&& m):
\* object n is constructed from m, field by field.
MoveCtor(h, n, m) ==
    LET r0 == [h.resv EXCEPT ![n].st = "alive"]
        r1 == [r0 EXCEPT ![n].res = r0[m].res]
        r2 == [r1 EXCEPT ![m].res = Null]
        r3 == [r2 EXCEPT ![n].device = r2[m].device]
        r4 == [r3 EXCEPT ![m].device = 0]
        r5 == [r4 EXCEPT ![n].stream = r4[m].stream]
        r6 == [r5 EXCEPT ![m].stream = Null]
        r7 == [r6 EXCEPT ![n].data = r6[m].data]
        r8 == [r7 EXCEPT ![m].data = Null]
        r9 == [r8 EXCEPT ![n].size = r8[m].size]
        r10 == [r9 EXCEPT ![m].size = 0]
    IN  [h EXCEPT !.resv = r10]

\* release() that returns the block and keeps the fields.
releaseNoReset(h, i, ub) ==
    LET m == h.resv[i]
    IN  IF m.res # Null
        THEN deallocMemory(h, m.res, m.device, m.data, ub)
        ELSE h

\* void GpuMemoryReservation::release()
release(h, i, ub) ==
    LET m == h.resv[i]
    IN  IF m.res # Null
        THEN LET h1 == deallocMemory(h, m.res, m.device, m.data, ub)
             IN  IF h1.crashed
                 THEN h1
                 ELSE [h1 EXCEPT !.resv[i].res = Null,
                                 !.resv[i].device = 0,
                                 !.resv[i].stream = Null,
                                 !.resv[i].data = Null,
                                 !.resv[i].size = 0]
        ELSE h

\* The assertion left out.
OwnershipUnchecked(rv, d, s) == TRUE

\* The assertion without its test that *this holds an allocation.
OwnershipOkNoResTest(rv, d, s) ==
    ~(rv[d].res = rv[s].res
        /\ rv[d].device = rv[s].device /\ rv[d].data = rv[s].data)

\* The assertion skipped on self-assignment.
OwnershipOkSelfGuard(rv, d, s) ==
    d = s \/ ~(rv[d].res # Null /\ rv[d].res = rv[s].res
                /\ rv[d].device = rv[s].device /\ rv[d].data = rv[s].data)

\* The condition of the FAISS_ASSERT in operator=: d is *this, s is m.
OwnershipOk(rv, d, s) ==
    ~(rv[d].res # Null /\ rv[d].res = rv[s].res
        /\ rv[d].device = rv[s].device /\ rv[d].data = rv[s].data)

\* operator= taking the fields of m over before it calls release().
MoveAssignBodyReleaseLast(h, d, s, ub) ==
    LET r0 == [h.resv EXCEPT ![d] = h.resv[s]]
        r1 == [r0 EXCEPT ![s] = GpuMemoryReservationDefault]
    IN  release([h EXCEPT !.resv = r1], d, ub)

\* The body of operator= after the assertion: release(), then the fields
\* of m are taken over one by one.
MoveAssignBody(h, d, s, ub) ==
    LET h0 == release(h, d, ub)
        r0 == h0.resv
        r1 == [r0 EXCEPT ![d].res = r0[s].res]
        r2 == [r1 EXCEPT ![s].res = Null]
        r3 == [r2 EXCEPT ![d].device = r2[s].device]
        r4 == [r3 EXCEPT ![s].device = 0]
        r5 == [r4 EXCEPT ![d].stream = r4[s].stream]
        r6 == [r5 EXCEPT ![s].stream = Null]
        r7 == [r6 EXCEPT ![d].data = r6[s].data]
        r8 == [r7 EXCEPT ![s].data = Null]
        r9 == [r8 EXCEPT ![d].size = r8[s].size]
        r10 == [r9 EXCEPT ![s].size = 0]
    IN  IF h0.crashed THEN h0 ELSE [h0 EXCEPT !.resv = r10]

\* A destructor that returns nothing.
DestructorLeak(h, i, ub) == [h EXCEPT !.resv[i] = Dead]

\* GpuMemoryReservation::~GpuMemoryReservation()
Destructor(h, i, ub) ==
    LET m == h.resv[i]
        h1 == IF m.res # Null
              THEN deallocMemory(h, m.res, m.device, m.data, ub)
              ELSE h
    IN  IF h1.crashed THEN h1 ELSE [h1 EXCEPT !.resv[i] = Dead]

\* ------------------------------------------------------------ providers
\* A provider that keeps a plain pointer and owns nothing.
ProviderCtorBorrow(uc) == uc

\* GpuResourcesProviderFromInstance(std::shared_ptr<GpuResources> p):
\* res_(p) is one more owner of the instance; uc is its use count.
ProviderCtor(uc) == uc + 1

\* getResources(): the caller receives a copy of res_.
getResources(uc) == uc + 1

\* One owner goes away; the last one runs ~GpuResources.
DropOwner(r) ==
    /\ useCount' = [useCount EXCEPT ![r] = @ - 1]
    /\ destroyed' = [destroyed EXCEPT ![r] = @ \/ useCount[r] - 1 = 0]

\* ------------------------------------------------------------ actions
Running == aborted = NoAbort

\* What a deallocMemory call made by object i can do: anything when the
\* instance it points to is gone, its work otherwise.
Outcomes(i) ==
    IF resv[i].res # Null /\ destroyed[resv[i].res]
    THEN UBOutcomes
    ELSE {"effect"}

Op(tag, calls) == [op |-> tag, calls |-> calls]

\* The heap h becomes the next state; a crash inside the handler ends the
\* process.
Commit(h, tag) ==
    /\ resv' = h.resv
    /\ live' = h.live
    /\ nFree' = h.nFree
    /\ stray' = h.stray
    /\ uaf' = h.uaf
    /\ aborted' = IF h.crashed THEN <<"crash">> ELSE aborted
    /\ last' = Op(tag, h.calls)
    /\ UNCHANGED <<nAlloc, curDev, resVars, descs, sel>>

\* cudaSetDevice(d)
SetDevice(d) ==
    /\ Running
    /\ d # curDev
    /\ curDev' = d
    /\ last' = Op("setDevice", <<>>)
    /\ UNCHANGED <<resv, poolVars, aborted, uaf, resVars, descs, sel>>

\* GpuMemoryReservation x;
DefaultConstruct(i) ==
    /\ Running
    /\ resv[i].st = "unborn"
    /\ resv' = [resv EXCEPT ![i] = GpuMemoryReservationDefault]
    /\ last' = Op("default", <<>>)
    /\ UNCHANGED <<poolVars, curDev, aborted, uaf, resVars, descs, sel>>

\* GpuMemoryReservation x(m.res, m.device, m.stream, m.data, m.size): a
\* caller builds a second reservation from the public fields of m.
RawConstruct(i, m) ==
    /\ Running
    /\ resv[i].st = "unborn"
    /\ resv[m].st = "alive"
    /\ resv' = [resv EXCEPT ![i] = GpuMemoryReservation(
                    resv[m].res, resv[m].device, resv[m].stream,
                    resv[m].data, resv[m].size)]
    /\ last' = Op("raw", <<>>)
    /\ UNCHANGED <<poolVars, curDev, aborted, uaf, resVars, descs, sel>>

\* allocMemory(req) of a concrete GpuResources: any address of the device
\* that is not handed out at the moment.
allocMemory(r, req) == {p \in Ptrs : <<r, req.device, p>> \notin live}

\* The AllocRequest values callers pass: one stream and one size per device.
Requests == {[device |-> d, stream |-> d + 1, size |-> d + 1] : d \in Devices}

\* AllocRequest(makeTempAlloc(at, st), size): a request for the current
\* device.
CurrentRequest == CHOOSE req \in Requests : req.device = getCurrentDevice

\* GpuResources::allocMemoryHandle(req), called on instance r
allocMemoryHandle(r, req, p) ==
    GpuMemoryReservation(r, req.device, req.stream, p, req.size)

\* GpuMemoryReservation x = r->allocMemoryHandle(req);
AllocMemoryHandle(i, r, req) ==
    /\ Running
    /\ resv[i].st = "unborn"
    /\ ~destroyed[r]
    /\ nAlloc < MaxAllocs
    /\ \E p \in allocMemory(r, req) :
        /\ live' = live \cup {<<r, req.device, p>>}
        /\ nAlloc' = nAlloc + 1
        /\ resv' = [resv EXCEPT ![i] = allocMemoryHandle(r, req, p)]
    /\ last' = Op("alloc", <<>>)
    /\ UNCHANGED <<nFree, stray, curDev, aborted, uaf, resVars, descs, sel>>

\* GpuMemoryReservation n(std::move(m));
MoveConstruct(n, m) ==
    /\ Running
    /\ resv[n].st = "unborn"
    /\ resv[m].st = "alive"
    /\ Commit(MoveCtor(Heap, n, m), "moveCtor")

\* d = std::move(s);
MoveAssign(d, s) ==
    /\ Running
    /\ resv[d].st = "alive"
    /\ resv[s].st = "alive"
    /\ IF OwnershipOk(resv, d, s)
       THEN \E ub \in Outcomes(d) :
                Commit(MoveAssignBody(Heap, d, s, ub), "assign")
       ELSE /\ aborted' = <<"assert", d, s>>
            /\ last' = Op("assign", <<>>)
            /\ UNCHANGED <<resv, poolVars, uaf, curDev, resVars, descs, sel>>

\* x.release();
Release(i) ==
    /\ Running
    /\ resv[i].st = "alive"
    /\ \E ub \in Outcomes(i) : Commit(release(Heap, i, ub), "release")

\* x goes out of scope
Destroy(i) ==
    /\ Running
    /\ resv[i].st = "alive"
    /\ \E ub \in Outcomes(i) : Commit(Destructor(Heap, i, ub), "destroy")

\* GpuResourcesProviderFromInstance prov(p), p a shared_ptr to instance r
MakeProvider(r) ==
    /\ Running
    /\ sptrs[r] > 0
    /\ provs[r] < MaxProvs
    /\ provs' = [provs EXCEPT ![r] = @ + 1]
    /\ useCount' = [useCount EXCEPT ![r] = ProviderCtor(@)]
    /\ last' = Op("provider", <<>>)
    /\ UNCHANGED <<resv, poolVars, curDev, aborted, uaf, sptrs, destroyed,
                   descs, sel>>

\* auto p = prov.getResources();
GetResources(r) ==
    /\ Running
    /\ provs[r] > 0
    /\ sptrs[r] < MaxShared
    /\ sptrs' = [sptrs EXCEPT ![r] = @ + 1]
    /\ useCount' = [useCount EXCEPT ![r] = getResources(@)]
    /\ last' = Op("getResources", <<>>)
    /\ UNCHANGED <<resv, poolVars, curDev, aborted, uaf, provs, destroyed,
                   descs, sel>>

\* a shared_ptr<GpuResources> to instance r goes out of scope
DropShared(r) ==
    /\ Running
    /\ sptrs[r] > 0
    /\ sptrs' = [sptrs EXCEPT ![r] = @ - 1]
    /\ DropOwner(r)
    /\ last' = Op("dropShared", <<>>)
    /\ UNCHANGED <<resv, poolVars, curDev, aborted, uaf, provs, descs, sel>>

\* a GpuResourcesProviderFromInstance of instance r is destroyed
DropProvider(r) ==
    /\ Running
    /\ provs[r] > 0
    /\ provs' = [provs EXCEPT ![r] = @ - 1]
    /\ DropOwner(r)
    /\ last' = Op("dropProvider", <<>>)
    /\ UNCHANGED <<resv, poolVars, curDev, aborted, uaf, sptrs, descs, sel>>

\* A descriptor the caller keeps, with the call that built it: the
\* function, its arguments and the current device at the call.
Desc(fn, at, sp, st, info) ==
    [fn |-> fn, at |-> at, sp |-> sp, st |-> st, cur |-> curDev,
     info |-> info]

Keep(x) ==
    /\ Running
    /\ Cardinality(descs) < MaxDescs
    /\ descs' = descs \cup {x}
    /\ UNCHANGED <<resv, poolVars, curDev, aborted, uaf, resVars, sel>>

\* auto info = makeDevAlloc(at, st);
MakeDevAlloc(at, st) ==
    /\ Keep(Desc("makeDevAlloc", at, "none", st, makeDevAlloc(at, st)))
    /\ last' = Op("makeDevAlloc", <<>>)

\* auto info = makeTempAlloc(at, st);
MakeTempAlloc(at, st) ==
    /\ Keep(Desc("makeTempAlloc", at, "none", st,
                 makeTempAlloc(at, st)))
    /\ last' = Op("makeTempAlloc", <<>>)

\* auto info = makeSpaceAlloc(at, sp, st);
MakeSpaceAlloc(at, sp, st) ==
    /\ Keep(Desc("makeSpaceAlloc", at, sp, st, makeSpaceAlloc(at, sp, st)))
    /\ last' = Op("makeSpaceAlloc", <<>>)

\* No kernel has been launched.
SelIdle == [pc |-> "idle"]

InitHost ==
    /\ resv = [i \in Slots |-> Unborn]
    /\ live = {}
    /\ nAlloc = 0
    /\ nFree = 0
    /\ stray = 0
    /\ curDev = 0
    /\ aborted = NoAbort
    /\ last = Op("init", <<>>)
    /\ useCount = [r \in Resources |-> 1]
    /\ provs = [r \in Resources |-> 0]
    /\ sptrs = [r \in Resources |-> 1]
    /\ destroyed = [r \in Resources |-> FALSE]
    /\ uaf = FALSE
    /\ descs = {}

Init == InitHost /\ sel = SelIdle

\* The reservation operations of a thread that may switch devices.
Next ==
    \/ \E d \in Devices : SetDevice(d)
    \/ \E i \in Slots : DefaultConstruct(i)
    \/ \E i \in Slots, r \in Resources, req \in Requests :
            AllocMemoryHandle(i, r, req)
    \/ \E n \in Slots, m \in Slots : MoveConstruct(n, m)
    \/ \E d \in Slots, s \in Slots : MoveAssign(d, s)
    \/ \E i \in Slots : Release(i)
    \/ \E i \in Slots : Destroy(i)

Spec == Init /\ [][Next]_vars

\* The same, with callers that also use the five-argument constructor.
NextRaw ==
    \/ \E i \in Slots : DefaultConstruct(i)
    \/ \E i \in Slots, r \in Resources, req \in Requests :
            AllocMemoryHandle(i, r, req)
    \/ \E n \in Slots, m \in Slots : MoveConstruct(n, m)
    \/ \E d \in Slots, s \in Slots : MoveAssign(d, s)
    \/ \E i \in Slots : Release(i)
    \/ \E i \in Slots : Destroy(i)
    \/ \E i \in Slots, m \in Slots : RawConstruct(i, m)

SpecRaw == Init /\ [][NextRaw]_vars

\* The instance that is handed to providers and shared among callers.
SharedInstance == CHOOSE r \in Resources : TRUE

\* Reservations drawn from the shared instance, against its owners coming
\* and going.
NextLife ==
    \/ \E i \in Slots : AllocMemoryHandle(i, SharedInstance, CurrentRequest)
    \/ \E n \in Slots, m \in Slots : MoveConstruct(n, m)
    \/ \E i \in Slots : Release(i)
    \/ \E i \in Slots : Destroy(i)
    \/ MakeProvider(SharedInstance)
    \/ GetResources(SharedInstance)
    \/ DropShared(SharedInstance)
    \/ DropProvider(SharedInstance)

SpecLife == Init /\ [][NextLife]_vars

\* The descriptor constructors of a thread that may switch devices.
NextDesc ==
    \/ \E d \in Devices : SetDevice(d)
    \/ \E at \in AllocTypes, st \in StreamArgs : MakeDevAlloc(at, st)
    \/ \E at \in AllocTypes, st \in StreamArgs : MakeTempAlloc(at, st)
    \/ \E at \in AllocTypes, sp \in MemorySpaces, st \in StreamArgs :
            MakeSpaceAlloc(at, sp, st)

SpecDesc == Init /\ [][NextDesc]_vars

\* ------------------------------------------------------------ selector
\* One block of the kernel WARP_SELECT_IMPL instantiates, selecting from
\* one row.  A candidate is <<score, original index>>.
\* WARP_SELECT_IMPL(float, false, 1024, 8): the largest k compiled in.
WarpQ == 1024

Warps == 0..(NumWarps - 1)
Lanes == 0..(WarpSize - 1)
Scores == 0..MaxVal

RECURSIVE RowsOfLen(_)
RowsOfLen(n) ==
    IF n = 0 THEN {<<>>}
    ELSE {Append(r, v) : r \in RowsOfLen(n - 1), v \in Scores}

Rows == UNION {RowsOfLen(n) : n \in 0..MaxN}

\* Candidate a goes before b: by score in the selection direction (dir
\* TRUE selects the largest), equal scores by ascending original index.
Before(a, b, dir) ==
    IF a[1] # b[1]
    THEN (IF dir THEN a[1] > b[1] ELSE a[1] < b[1])
    ELSE a[2] < b[2]

RECURSIVE MergeTopK(_, _, _)
\* The k first candidates of the set S, in order.
MergeTopK(S, k, dir) ==
    IF k = 0 \/ S = {}
    THEN <<>>
    ELSE LET a == CHOOSE x \in S : \A y \in S \ {x} : Before(x, y, dir)
         IN  <<a>> \o MergeTopK(S \ {a}, k - 1, dir)

Range(q) == {q[n] : n \in 1..Len(q)}

\* A thread accepting every candidate that ties the warp's threshold or
\* is worse than it, and dropping the better ones.
AcceptInverted(c, wq, k, dir) ==
    /\ k > 0
    /\ Len(wq) < k \/ ~(IF dir THEN c[1] > wq[k][1] ELSE c[1] < wq[k][1])

\* A thread keeps candidate c unless the warp already holds k candidates
\* and c does not beat the k-th of them.
Accept(c, wq, k, dir) ==
    /\ k > 0
    /\ Len(wq) < k \/ (IF dir THEN c[1] > wq[k][1] ELSE c[1] < wq[k][1])

\* The index lane l of warp w reads in round t (the first index is 1).
IndexOf(w, l, t) == (t * NumWarps + w) * WarpSize + l + 1

\* Warp w has read its slice of the row.
Scanned(w) == IndexOf(w, 0, sel.rnd[w]) > Len(sel.row)

\* The thread buffers of warp w merged into its warp-wide structure.
WarpMerge(wq, tq, k, dir) ==
    MergeTopK(Range(wq) \cup UNION {Range(tq[l]) : l \in Lanes}, k, dir)

\* Warp w reads one element per lane, each lane filters and buffers its
\* candidate, and the warp merges when a buffer is full.
WarpRound(w) ==
    /\ sel.pc = "scan"
    /\ ~Scanned(w)
    /\ LET t == sel.rnd[w]
           cand(l) == <<sel.row[IndexOf(w, l, t)], IndexOf(w, l, t)>>
           reads(l) == IndexOf(w, l, t) <= Len(sel.row)
           keeps(l) == reads(l) /\ Accept(cand(l), sel.wq[w], sel.k, sel.dir)
           tq1 == [l \in Lanes |->
                    IF keeps(l) THEN Append(sel.tq[w][l], cand(l))
                    ELSE sel.tq[w][l]]
           full == \E l \in Lanes : Len(tq1[l]) >= NumThreadQ
           dropped == Cardinality({l \in Lanes : reads(l) /\ ~keeps(l)})
       IN  sel' = [sel EXCEPT
                !.rnd[w] = t + 1,
                !.rej = @ + dropped,
                !.tq[w] = IF full THEN [l \in Lanes |-> <<>>] ELSE tq1,
                !.wq[w] = IF full
                          THEN WarpMerge(sel.wq[w], tq1, sel.k, sel.dir)
                          ELSE @]
    /\ UNCHANGED <<resv, poolVars, curDev, aborted, last, uaf, resVars,
                   descs>>

\* Warp w, at the end of its slice, merges what its threads still hold.
WarpFinish(w) ==
    /\ sel.pc = "scan"
    /\ Scanned(w)
    /\ ~sel.fin[w]
    /\ sel' = [sel EXCEPT
            !.fin[w] = TRUE,
            !.tq[w] = [l \in Lanes |-> <<>>],
            !.wq[w] = WarpMerge(sel.wq[w], sel.tq[w], sel.k, sel.dir)]
    /\ UNCHANGED <<resv, poolVars, curDev, aborted, last, uaf, resVars,
                   descs>>

\* The warp-wide structures are merged through shared memory and the k
\* values and indices are written out.
BlockReduce ==
    /\ sel.pc = "scan"
    /\ \A w \in Warps : sel.fin[w]
    /\ sel' = [sel EXCEPT
            !.pc = "done",
            !.out = MergeTopK(UNION {Range(sel.wq[w]) : w \in Warps},
                              sel.k, sel.dir)]
    /\ UNCHANGED <<resv, poolVars, curDev, aborted, last, uaf, resVars,
                   descs>>

\* The kernel is launched on a row with a k and a direction.
InitSel ==
    /\ InitHost
    /\ \E row \in Rows, k \in {n \in 0..MaxK : n <= WarpQ},
          dir \in BOOLEAN :
        sel = [pc |-> "scan", row |-> row, k |-> k, dir |-> dir,
               rnd |-> [w \in Warps |-> 0],
               fin |-> [w \in Warps |-> FALSE],
               tq |-> [w \in Warps |-> [l \in Lanes |-> <<>>]],
               wq |-> [w \in Warps |-> <<>>],
               rej |-> 0,
               out |-> <<>>]

NextSel ==
    \/ \E w \in Warps : WarpRound(w)
    \/ \E w \in Warps : WarpFinish(w)
    \/ BlockReduce

SpecSel == InitSel /\ [][NextSel]_vars

\* ------------------------------------------------------------ properties
Alive(i) == resv[i].st = "alive"

\* Object i owns an allocation.
Holds(i) == Alive(i) /\ resv[i].res # Null

\* Every object that was constructed has been destroyed.
AllDestroyed == \A i \in Slots : ~Alive(i)

\* d and s name the same block of the same instance.
Collide(d, s) == resv[d].res # Null /\ Block(resv[d]) = Block(resv[s])

\* The deallocMemory calls a handler makes for allocation-owning object i.
CallsFor(i) == IF resv[i].res # Null THEN <<Block(resv[i])>> ELSE <<>>

\* C1: with allocMemoryHandle, the move operations, release() and the
\* destructor only, no deallocMemory call ever names a block that is not
\* handed out (no double free), and once every reservation is destroyed
\* every block allocMemory returned has been returned (no leak): as many
\* returns as allocations.
C1_ExactlyOnce ==
    /\ stray = 0
    /\ nFree + Cardinality(live) = nAlloc
    /\ AllDestroyed => (live = {} /\ nFree = nAlloc)

C1_Witness ==
    /\ \A i \in Slots : resv[i].st = "destroyed"
    /\ nAlloc = 2
    /\ nFree = 2

\* C2: move-assigning s over a distinct d that names the same block of
\* the same instance fails the assertion: the process is terminated with
\* no deallocMemory call made and no field of d or s changed.
C2_CollisionAsserts ==
    [][\A d \in Slots, s \in Slots :
        (last'.op = "assign" /\ d # s /\ Alive(d) /\ Alive(s)
            /\ Collide(d, s) /\ MoveAssign(d, s))
            => /\ aborted' = <<"assert", d, s>>
               /\ last'.calls = <<>>
               /\ UNCHANGED <<resv, poolVars>>]_vars

C2_Witness ==
    \E d \in Slots, s \in Slots :
        /\ d # s
        /\ aborted = <<"assert", d, s>>
        /\ Collide(d, s)
        /\ Block(resv[d]) \in live

\* C3: a move-assignment d = std::move(s) that passes the assertion makes
\* one deallocMemory call, for the block d held, when d held one, and none
\* otherwise; afterwards d has the five fields s had, s is empty, and the
\* block of s is still handed out.
C3_AssignTakesOver ==
    [][\A d \in Slots, s \in Slots :
        (last'.op = "assign" /\ Alive(d) /\ Alive(s) /\ ~Collide(d, s)
            /\ MoveAssign(d, s))
            => /\ aborted' = NoAbort
               /\ last'.calls = CallsFor(d)
               /\ live' = live \ {Block(resv[d])}
               /\ Fields(resv'[d]) = Fields(resv[s])
               /\ IsEmpty(resv'[s])
               /\ (Holds(s) /\ Block(resv[s]) \in live)
                    => Block(resv[s]) \in live']_vars

C3_Witness ==
    \E d \in Slots, s \in Slots :
        /\ Running
        /\ last.op = "assign"
        /\ Len(last.calls) = 1
        /\ Holds(d)
        /\ Block(resv[d]) \in live
        /\ Block(resv[d]) # last.calls[1]
        /\ Alive(s)
        /\ IsEmpty(resv[s])

\* C4: release() on an object that owns an allocation makes exactly one
\* deallocMemory(device, data) call on its instance and leaves the object
\* empty; release() on an empty object, and the destructor of an empty
\* object, make no call and change no field and no block.
C4_ReleaseIdempotent ==
    [][\A i \in Slots : Alive(i) =>
        /\ (last'.op = "release" /\ Release(i)) =>
            /\ last'.calls = CallsFor(i)
            /\ resv' = [resv EXCEPT ![i] = GpuMemoryReservationDefault]
            /\ ~Holds(i) => UNCHANGED <<resv, poolVars>>
        /\ (last'.op = "destroy" /\ IsEmpty(resv[i]) /\ Destroy(i)) =>
            /\ last'.calls = <<>>
            /\ UNCHANGED poolVars]_vars

C4_Witness ==
    \E i \in Slots :
        /\ Alive(i)
        /\ IsEmpty(resv[i])
        /\ \A j \in Slots \ {i} : resv[j].st = "unborn"
        /\ nAlloc = 1
        /\ nFree = 1
        /\ last = Op("release", <<>>)

\* C5: move-assigning an empty reservation onto an empty reservation, the
\* same object included, passes the assertion, makes no deallocMemory
\* call and leaves both empty.
C5_EmptyOntoEmpty ==
    [][\A d \in Slots, s \in Slots :
        (last'.op = "assign" /\ Alive(d) /\ Alive(s) /\ IsEmpty(resv[d])
            /\ IsEmpty(resv[s]) /\ MoveAssign(d, s))
            => /\ aborted' = NoAbort
               /\ last'.calls = <<>>
               /\ IsEmpty(resv'[d])
               /\ IsEmpty(resv'[s])
               /\ UNCHANGED <<resv, poolVars>>]_vars

C5_Witness ==
    /\ Running
    /\ last = Op("assign", <<>>)
    /\ nAlloc = 0
    /\ \E d \in Slots, s \in Slots : d # s /\ Alive(d) /\ Alive(s)

\* C6: whatever moves it went through and whatever the current device is,
\* a reservation that owns an allocation names a block its instance handed
\* out for the request's device at the returned address and has not got
\* back, no two reservations name the same block, and every
\* deallocMemory call made names such a block.
C6_SameIdentity ==
    /\ \A i \in Slots : Holds(i) => Block(resv[i]) \in live
    /\ \A i \in Slots, j \in Slots :
            (i # j /\ Holds(i) /\ Holds(j)) => Block(resv[i]) # Block(resv[j])
    /\ \A b \in live : \E i \in Slots : Holds(i) /\ Block(resv[i]) = b
    /\ stray = 0

C6_Witness ==
    /\ last.op = "destroy"
    /\ Len(last.calls) = 1
    /\ last.calls[1][2] # curDev
    /\ nAlloc = 1
    /\ nFree = 1
    /\ \A i \in Slots : resv[i].st # "unborn"

\* C7 as claimed: no reservation that owns an allocation points to a
\* destroyed instance, and deallocMemory is never called on one.
C7_ReservationsKeepAlive ==
    /\ \A i \in Slots : Holds(i) => ~destroyed[resv[i].res]
    /\ ~uaf

\* C7, amended: the providers and shared pointers of an instance keep it
\* alive, and a reservation's deallocMemory call reaches a destroyed
\* instance only after the last of them is gone.
C7_OwnersKeepAlive ==
    /\ \A r \in Resources : (provs[r] > 0 \/ sptrs[r] > 0) => ~destroyed[r]
    /\ \A i \in Slots :
        (Holds(i) /\ (provs[resv[i].res] > 0 \/ sptrs[resv[i].res] > 0))
            => ~destroyed[resv[i].res]
    /\ uaf => \E r \in Resources :
                destroyed[r] /\ provs[r] = 0 /\ sptrs[r] = 0

C7_Witness ==
    /\ provs[SharedInstance] = 1
    /\ sptrs[SharedInstance] = 0
    /\ ~destroyed[SharedInstance]
    /\ last.op = "destroy"
    /\ Len(last.calls) = 1
    /\ ~uaf

\* The space the claim gives each constructor.
SpaceOf(x) ==
    CASE x.fn = "makeDevAlloc" -> "Device"
      [] x.fn = "makeTempAlloc" -> "Temporary"
      [] OTHER -> x.sp

\* C8: every descriptor built by makeDevAlloc, makeTempAlloc or
\* makeSpaceAlloc has the device that was current at its call, the given
\* type and stream, and space Device, Temporary or the given space, also
\* after the current device has changed.
C8_SnapshotsCurrentDevice ==
    \A x \in descs :
        x.info = [type |-> x.at, device |-> x.cur, space |-> SpaceOf(x),
                  stream |-> x.st]

C8_Witness ==
    /\ \E x \in descs : x.fn = "makeDevAlloc" /\ x.info.device # curDev
    /\ \E x \in descs : x.fn # "makeDevAlloc" /\ x.info.device = curDev

\* C10: move-assigning an object that owns an allocation onto itself
\* fails the assertion with no deallocMemory call and no field changed;
\* a self-move-assignment that passes is that of an empty object, which
\* stays empty.
C10_SelfAssign ==
    [][\A i \in Slots :
        (last'.op = "assign" /\ Alive(i) /\ MoveAssign(i, i)) =>
        IF resv[i].res # Null
        THEN /\ aborted' = <<"assert", i, i>>
             /\ last'.calls = <<>>
             /\ UNCHANGED <<resv, poolVars>>
        ELSE /\ aborted' = NoAbort
             /\ IsEmpty(resv[i])
             /\ IsEmpty(resv'[i])]_vars

C10_Witness ==
    \E i \in Slots :
        /\ aborted = <<"assert", i, i>>
        /\ Holds(i)
        /\ Block(resv[i]) \in live

\* The reference: the row sorted in full by insertion, best score first.
RECURSIVE InsertSorted(_, _, _)
InsertSorted(q, v, dir) ==
    IF q = <<>> THEN <<v>>
    ELSE IF (IF dir THEN v > Head(q) ELSE v < Head(q))
         THEN <<v>> \o q
         ELSE <<Head(q)>> \o InsertSorted(Tail(q), v, dir)

RECURSIVE FullSort(_, _)
FullSort(row, dir) ==
    IF row = <<>> THEN <<>>
    ELSE InsertSorted(FullSort(Tail(row), dir), Head(row), dir)

Min(a, b) == IF a < b THEN a ELSE b

\* How often score v occurs in the sequence q of scores.
Count(q, v) == Cardinality({n \in 1..Len(q) : q[n] = v})

SameMultiset(p, q) == \A v \in Scores : Count(p, v) = Count(q, v)

OutScores == [n \in 1..Len(sel.out) |-> sel.out[n][1]]

\* C9: when the block is done, the scores written out are, as a multiset,
\* the first min(k, N) scores of the fully sorted row; with k >= N they
\* are the whole row, with N = 0 or k = 0 nothing is written; and every
\* index written is the position of its score in the row.
C9_TopK ==
    sel.pc = "done" =>
        LET N == Len(sel.row)
            ref == SubSeq(FullSort(sel.row, sel.dir), 1, Min(sel.k, N))
        IN  /\ Len(sel.out) = Min(sel.k, N)
            /\ SameMultiset(OutScores, ref)
            /\ sel.k >= N => SameMultiset(OutScores, sel.row)
            /\ (N = 0 \/ sel.k = 0) => sel.out = <<>>
            /\ \A n \in 1..Len(sel.out) :
                    sel.row[sel.out[n][2]] = sel.out[n][1]
            /\ \A m \in 1..Len(sel.out), n \in 1..Len(sel.out) :
                    m # n => sel.out[m][2] # sel.out[n][2]

C9_Witness ==
    /\ sel.pc = "done"
    /\ sel.k = 2
    /\ Len(sel.row) = 5
    /\ sel.rej > 0
    /\ Len(sel.out) = 2
    /\ sel.out[1][1] = sel.out[2][1]
    /\ \E n \in 1..5 : sel.row[n] # sel.out[1][1]

====
